---- MODULE Spec2Model ----
(***************************************************************************)
(* The stats Concentrator of pkg/trace/stats/concentrator.go: a map of     *)
(* time buckets guarded by one mutex, filled by concurrent Add calls and   *)
(* drained by Flush, which the background goroutine started by Start calls *)
(* on every tick and, forced, when Stop closes the exit channel.           *)
(*                                                                         *)
(* Timestamps are integers (nanoseconds in the code); the bucket size is   *)
(* scaled down to a few units so that several buckets fit in the model.    *)
(***************************************************************************)
EXTENDS Integers, Sequences, FiniteSets, TLC

\* ------------------------------------------------------------------ bounds
\* bucket duration (conf.BucketInterval, 10s in production)
bsize == 2
\* largest clock reading handed to NewConcentrator and to Flush
MaxNow == 6
\* number of spans the Add calls apply to buckets, all calls together
MaxSpans == 2
\* number of ticks and outside Flush calls (Run's final flush comes on top)
MaxFlushes == 2
\* largest number of tags handed to preparePeerTags
MaxTags == 3
\* largest length of a tag
MaxTagLen == 2

\* --------------------------------------------------------------- constants
defaultBufferLen == 2

bufferLen == defaultBufferLen

agentHostname == "agent-host"

agentEnv == "agent-env"

\* ------------------------------------------------------------------ threads
Adders == {"a1"}

Flushers == {"f1"}

FlushThreads == Flushers \cup {"run"}

Threads == Adders \cup FlushThreads \cup {"ctl"}

Nows == 0..MaxNow

\* the clock readings handed to NewConcentrator
InitNows == 0..(bsize + 1)

\* ------------------------------------------------------------------- inputs
\* The spans an Add call may carry: start and duration, the three
\* eligibility marks, the partial-snapshot mark and the hostname the tracer
\* reported for the trace the span belongs to.
Starts == {2 * i - 2 : i \in 0..((MaxNow \div 2) + 1)}

Durations == {0, 1}

TopLevelShape ==
  [TopLevel |-> TRUE, Measured |-> FALSE, Kind |-> "", Partial |-> FALSE]

Shapes ==
  { TopLevelShape,
    [TopLevel |-> FALSE, Measured |-> TRUE,  Kind |-> "internal", Partial |-> FALSE],
    [TopLevel |-> FALSE, Measured |-> FALSE, Kind |-> "SERVER",   Partial |-> FALSE],
    [TopLevel |-> FALSE, Measured |-> FALSE, Kind |-> "internal", Partial |-> FALSE],
    [TopLevel |-> TRUE,  Measured |-> FALSE, Kind |-> "client",   Partial |-> TRUE] }

TracerHostnames == {"", "h1"}

MkSpan(st, d, sh, h) ==
  [Start |-> st, Duration |-> d, TopLevel |-> sh.TopLevel, Measured |-> sh.Measured,
   Kind |-> sh.Kind, Partial |-> sh.Partial, TracerHostname |-> h]

\* top-level spans of every end time and hostname, and one span of each
\* other shape
SpanInputs ==
  {MkSpan(st, d, TopLevelShape, h) : st \in Starts, d \in Durations, h \in TracerHostnames}
    \cup {MkSpan(0, 1, sh, "") : sh \in Shapes}

\* top-level spans that end in every bucket of the model, and a span that
\* addNow skips
TimedInputs ==
  {MkSpan(st, 1, TopLevelShape, "") : st \in Starts}
    \cup {MkSpan(0, 1, [TopLevelShape EXCEPT !.TopLevel = FALSE], "")}

\* the values of s.Meta["span.kind"]; "" is also what the lookup yields when
\* the key is absent
Kinds ==
  {"", "server", "consumer", "client", "producer", "SERVER", "Client", "Consumer",
   "PRODUCER", "internal", "INTERNAL", "servers"}

\* one span of every combination of the marks addNow looks at
KindInputs ==
  {MkSpan(0, 1, [TopLevel |-> a, Measured |-> b, Kind |-> k, Partial |-> c], "") :
     a \in BOOLEAN, b \in BOOLEAN, c \in BOOLEAN, k \in Kinds}

\* A tag is a string: the sequence of its bytes, here out of two values.
TagBytes == {1, 2}

Tags == UNION {[1..n -> TagBytes] : n \in 0..MaxTagLen}

TagSeqs == UNION {[1..n -> Tags] : n \in 0..MaxTags}

\* ---------------------------------------------------------- pure functions
\* Go's % truncates toward zero: the remainder has the sign of the dividend.
GoRem(a, b) == IF a >= 0 THEN a % b ELSE 0 - ((0 - a) % b)

alignTsNoTruncate(ts, b) == ts

alignTs(ts, b) == ts - GoRem(ts, b)

ToLower(k) ==
  CASE k = "SERVER" -> "server"
    [] k = "Client" -> "client"
    [] k = "Consumer" -> "consumer"
    [] k = "PRODUCER" -> "producer"
    [] k = "INTERNAL" -> "internal"
    [] OTHER -> k

computeStatsForSpanKindExact(s) ==
  s.Kind \in {"server", "consumer", "client", "producer"}

computeStatsForSpanKind(s) ==
  ToLower(s.Kind) \in {"server", "consumer", "client", "producer"}

\* addNow, lines 234-241: the spans that are skipped
Eligible(s, bySpanKind) ==
  /\ s.TopLevel \/ s.Measured \/ (bySpanKind /\ computeStatsForSpanKind(s))
  /\ ~s.Partial

BucketTimeDropLate(s, oldest) ==
  LET end == s.Start + s.Duration IN end - GoRem(end, bsize)

\* addNow, lines 242-248: the bucket a span goes to
BucketTime(s, oldest) ==
  LET end   == s.Start + s.Duration
      btime == end - GoRem(end, bsize)
  IN  IF btime < oldest THEN oldest ELSE btime

\* addNow, lines 216-232
AggKey(s) ==
  [Env          |-> agentEnv,
   Hostname     |-> IF s.TracerHostname = "" THEN agentHostname ELSE s.TracerHostname,
   Version      |-> "",
   ContainerID  |-> "",
   GitCommitSha |-> "",
   ImageTag     |-> ""]

\* RawBucket (statsraw.go): what a bucket holds is the spans handed to it,
\* grouped by aggregation key; Export yields one record per key.
NewRawBucket(btime, id) == [start |-> btime, inst |-> id, data |-> {}]

HandleSpan(b, id, key) == [b EXCEPT !.data = @ \cup {[id |-> id, key |-> key]}]

KeysOf(b) == {d.key : d \in b.data}

Export(b) ==
  [k \in KeysOf(b) |->
     [start |-> b.start, inst |-> b.inst, ids |-> {d.id : d \in {e \in b.data : e.key = k}}]]

\* the order of Go's strings: byte by byte, a proper prefix first
RECURSIVE StringLess(_, _)
StringLess(a, b) ==
  IF a = << >> THEN b # << >>
  ELSE IF b = << >> THEN FALSE
  ELSE IF Head(a) # Head(b) THEN Head(a) < Head(b)
  ELSE StringLess(Tail(a), Tail(b))

\* preparePeerTags, lines 93-100
RECURSIVE Deduped(_, _)
Deduped(tags, seen) ==
  IF tags = << >> THEN << >>
  ELSE IF Head(tags) \in seen THEN Deduped(Tail(tags), seen)
  ELSE << Head(tags) >> \o Deduped(Tail(tags), seen \cup {Head(tags)})

RECURSIVE Inserted(_, _)
Inserted(sorted, x) ==
  IF sorted = << >> THEN << x >>
  ELSE IF StringLess(x, Head(sorted)) THEN << x >> \o sorted
  ELSE << Head(sorted) >> \o Inserted(Tail(sorted), x)

SortSkipped(tags) == tags

\* sort.Strings
RECURSIVE SortStrings(_)
SortStrings(tags) ==
  IF tags = << >> THEN << >> ELSE Inserted(SortStrings(Tail(tags)), Head(tags))

\* preparePeerTags, lines 89-103; the nil it returns is the empty sequence
preparePeerTags(tags) ==
  IF Len(tags) = 0 THEN << >> ELSE SortStrings(Deduped(tags, {}))

KeepIgnoringForce(ts, now, force) == ts > now - bufferLen * bsize

KeepOneBucketMore(ts, now, force) == ~force /\ ts > now - (bufferLen + 1) * bsize

KeepAtBoundary(ts, now, force) == ~force /\ ts >= now - bufferLen * bsize

KeepOneBucketLess(ts, now, force) == ~force /\ ts > now - (bufferLen - 1) * bsize

\* flushNow, line 281: the buckets a sweep leaves in the map
Keep(ts, now, force) == ~force /\ ts > now - bufferLen * bsize

Flushed(bk, now, force) == {ts \in DOMAIN bk : ~Keep(ts, now, force)}

MergedOverwrite(bk, S) ==
  LET keys == UNION {KeysOf(bk[ts]) : ts \in S}
  IN  [k \in keys |->
         LET last == CHOOSE u \in S : k \in KeysOf(bk[u]) IN {Export(bk[last])[k]}]

\* flushNow, lines 286-291: m after the sweep
Merged(bk, S) ==
  LET keys == UNION {KeysOf(bk[ts]) : ts \in S}
  IN  [k \in keys |-> {Export(bk[ts])[k] : ts \in {u \in S : k \in KeysOf(bk[u])}}]

RemainingNoDelete(bk, S) == bk

RemainingNone(bk, S) == [ts \in {} |-> bk[ts]]

\* flushNow, line 292: the map after the sweep
Remaining(bk, S) == [ts \in (DOMAIN bk) \ S |-> bk[ts]]

NewOldestTsStuck(old, now) == old

NewOldestTsNoBuffer(old, now) ==
  IF alignTs(now, bsize) > old THEN alignTs(now, bsize) ELSE old

NewOldestTsRegress(old, now) == alignTs(now, bsize) - (bufferLen - 1) * bsize

\* flushNow, lines 296-300: the watermark after a flush
NewOldestTs(old, now) ==
  LET newOldestTs == alignTs(now, bsize) - (bufferLen - 1) * bsize
  IN  IF newOldestTs > old THEN newOldestTs ELSE old

\* flushNow, lines 302-317: the payload's groups
Assemble(m) ==
  { [Env |-> k.Env, Hostname |-> k.Hostname, ContainerID |-> k.ContainerID,
     Version |-> k.Version, GitCommitSha |-> k.GitCommitSha, ImageTag |-> k.ImageTag,
     Stats |-> m[k]] : k \in DOMAIN m }

EmptyMap == [x \in {} |-> x]

RecordsOf(m) == UNION {m[k] : k \in DOMAIN m}

\* the (bucket timestamp, span) pairs a payload carries
PayloadSpans(sb) ==
  UNION {UNION {{<<r.start, i>> : i \in r.ids} : r \in g.Stats} : g \in sb}

\* the records of a payload, each with its group
GroupRecords(sb) == UNION {{<<g, r>> : r \in g.Stats} : g \in sb}

\* the number of records of a payload that count span i
CopiesIn(sb, i) == Cardinality({gr \in GroupRecords(sb) : i \in gr[2].ids})

\* the payloads handed to the caller of Flush, or to the Writer, so far
Deliver(d, sb) == [i \in DOMAIN d |-> d[i] + CopiesIn(sb, i)]


\* -------------------------------------------------------------------- state
VARIABLES
  buckets,                  \* c.buckets: bucket timestamp -> RawBucket
  oldestTs,                 \* c.oldestTs
  mu,                       \* c.mu: the thread holding it, or "none"
  exit,                     \* c.exit is closed
  exitWG,                   \* c.exitWG's counter
  computeStatsBySpanKind,   \* c.computeStatsBySpanKind
  pc,                       \* where each thread is
  left,                     \* spans an Add call has still to apply
  fl,                       \* locals of each thread's flushNow
  started,                  \* Start has been called
  applied,                  \* number of spans applied so far (span ids)
  nflush,                   \* number of ticks taken and Flush calls so far
  swept,                    \* the latest sweep, if no Add took the lock since:
                            \* the bucket of its clock reading, and its force
  xlog,                     \* every bucket exported: timestamp, instance, forced
  dupExport,                \* some bucket instance was exported twice
  lateApply,                \* a span was applied to an exported instance
  lastAdd,                  \* the span the running Add call applied last
  wr,                       \* forced flushes of Run and calls of Writer.Write
  inputs,                   \* the spans the callers of Add send
  batch,                    \* the latest Add call's spans: <<bucket timestamp, id>>
  delivered,                \* span id -> copies of it in the payloads handed over
  clock,                    \* time of flushTicker's latest tick, or Untimed
  peerTagsArg,              \* the tags NewConcentrator hands to preparePeerTags
  peerTagKeys               \* c.peerTagKeys

vars ==
  << buckets, oldestTs, mu, exit, exitWG, computeStatsBySpanKind, pc, left,
     fl, started, applied, nflush, swept, xlog, dupExport, lateApply, lastAdd,
     wr, inputs, batch, delivered, clock, peerTagsArg, peerTagKeys >>

shared == << buckets, oldestTs >>

life == << exit, exitWG, started >>

history == << swept, xlog, dupExport, lastAdd >>

exports == << xlog, dupExport, lastAdd >>

setup == << inputs, peerTagsArg, peerTagKeys >>

aside == << setup, batch, delivered, clock >>

\* the value of clock when the time of the ticks is not followed: a Flush
\* call then reads any clock value
Untimed == 0 - 1

NoAdd == [id |-> 0, end |-> 0, eligible |-> FALSE]

NoPrior == [some |-> FALSE, now |-> 0, force |-> FALSE]

FlIdle ==
  [now |-> 0, force |-> FALSE, pre |-> EmptyMap, old |-> 0, prior |-> NoPrior,
   m |-> EmptyMap, sb |-> {}]

\* NewConcentrator, lines 106-130, and the counters of the model
NewConcentrator(now, bySpanKind) ==
  /\ buckets = EmptyMap
  /\ oldestTs = alignTs(now, bsize)
  /\ mu = "none"
  /\ exit = FALSE
  /\ exitWG = 0
  /\ computeStatsBySpanKind = bySpanKind

\* no method has been called yet; ctl is where the thread that constructs,
\* starts and stops the concentrator is
NothingYet(ctl) ==
  /\ pc = [t \in Threads |->
             IF t = "ctl" THEN ctl ELSE IF t = "run" THEN "off" ELSE "idle"]
  /\ left = [t \in Adders |-> 0]
  /\ fl = [t \in FlushThreads |-> FlIdle]
  /\ started = FALSE
  /\ applied = 0
  /\ nflush = 0
  /\ swept = NoPrior
  /\ xlog = {}
  /\ dupExport = FALSE
  /\ lateApply = FALSE
  /\ lastAdd = NoAdd
  /\ wr = [forcedFlush |-> 0, calls |-> 0, forcedCalls |-> 0, forcedRets |-> 0]
  /\ batch = {}
  /\ delivered = [i \in 1..MaxSpans |-> 0]

\* conf.PeerServiceAggregation and conf.PeerTagsAggregation are not set:
\* line 126
NoPeerTags ==
  /\ peerTagsArg = << >>
  /\ peerTagKeys = << >>

\* A concentrator with conf.ComputeStatsBySpanKind set, whose Flush calls read
\* any clock value
Init ==
  /\ \E now \in InitNows : NewConcentrator(now, TRUE)
  /\ NothingYet("created")
  /\ inputs = SpanInputs
  /\ clock = Untimed
  /\ NoPeerTags

\* ------------------------------------------------------------ Start / Stop
\* Start, lines 133-140
Start ==
  /\ pc["ctl"] = "created"
  /\ exitWG' = exitWG + 1
  /\ started' = TRUE
  /\ pc' = [pc EXCEPT !["ctl"] = "running", !["run"] = "launched"]
  /\ UNCHANGED << shared, mu, exit, computeStatsBySpanKind, left, fl, applied,
                  nflush, history, lateApply, wr >>
  /\ UNCHANGED aside

\* Stop, line 165
StopClose ==
  /\ pc["ctl"] \in {"created", "running"}
  /\ exit' = TRUE
  /\ pc' = [pc EXCEPT !["ctl"] = "stopping"]
  /\ UNCHANGED << shared, mu, exitWG, started, computeStatsBySpanKind, left, fl,
                  applied, nflush, history, lateApply, wr >>
  /\ UNCHANGED aside

WaitSkipped(wg) == TRUE

\* sync.WaitGroup.Wait returns when the counter is zero
WaitReturns(wg) == wg = 0

\* Stop, line 166
StopWait ==
  /\ pc["ctl"] = "stopping"
  /\ WaitReturns(exitWG)
  /\ pc' = [pc EXCEPT !["ctl"] = "stopped"]
  /\ UNCHANGED << shared, mu, life, computeStatsBySpanKind, left, fl, applied,
                  nflush, history, lateApply, wr >>
  /\ UNCHANGED aside

\* --------------------------------------------------------------------- Run
\* Run, lines 146-149: the goroutine creates its ticker
RunBegin ==
  /\ pc["run"] = "launched"
  /\ pc' = [pc EXCEPT !["run"] = "select"]
  /\ UNCHANGED << shared, mu, life, computeStatsBySpanKind, left, fl, applied,
                  nflush, history, lateApply, wr >>
  /\ UNCHANGED aside

TickPeriodDouble == 2 * bsize

\* Run, line 146: the period of flushTicker
TickPeriod == bsize

\* Run, lines 153-154: the ticker delivers a tick and the select takes the
\* tick case, which calls Flush(false)
RunTick ==
  /\ pc["run"] = "select"
  /\ nflush < MaxFlushes
  /\ nflush' = nflush + 1
  /\ clock' = IF clock = Untimed THEN clock ELSE clock + TickPeriod
  /\ fl' = [fl EXCEPT !["run"] = FlIdle]
  /\ pc' = [pc EXCEPT !["run"] = "flock"]
  /\ UNCHANGED << shared, mu, life, computeStatsBySpanKind, left, applied,
                  history, lateApply, wr >>
  /\ UNCHANGED << setup, batch, delivered >>

\* Run, lines 155-157: the exit case calls Flush(true)
RunExit ==
  /\ pc["run"] = "select"
  /\ exit
  /\ fl' = [fl EXCEPT !["run"] = [FlIdle EXCEPT !.force = TRUE]]
  /\ pc' = [pc EXCEPT !["run"] = "flock"]
  /\ UNCHANGED << shared, mu, life, computeStatsBySpanKind, left, applied, nflush,
                  history, lateApply, wr >>
  /\ UNCHANGED aside

\* Run, lines 154 and 157: Writer.Write is called with the payload
WriteCall ==
  /\ pc["run"] = "payload"
  /\ pc' = [pc EXCEPT !["run"] = "writing"]
  /\ wr' = [wr EXCEPT !.calls = @ + 1,
                      !.forcedCalls = IF fl["run"].force THEN @ + 1 ELSE @]
  /\ UNCHANGED << shared, mu, life, computeStatsBySpanKind, left, fl, applied,
                  nflush, history, lateApply >>
  /\ UNCHANGED aside

AfterWriteLoops(force) == "select"

\* Run, lines 151-160: the loop goes on after a tick and returns after exit
AfterWrite(force) == IF force THEN "returned" ELSE "select"

\* Writer.Write returns
WriteReturn ==
  /\ pc["run"] = "writing"
  /\ pc' = [pc EXCEPT !["run"] = AfterWrite(fl["run"].force)]
  /\ wr' = [wr EXCEPT !.forcedRets = IF fl["run"].force THEN @ + 1 ELSE @]
  /\ delivered' = Deliver(delivered, fl["run"].sb)
  /\ fl' = [fl EXCEPT !["run"] = FlIdle]
  /\ UNCHANGED << shared, mu, life, computeStatsBySpanKind, left, applied, nflush,
                  history, lateApply >>
  /\ UNCHANGED << setup, batch, clock >>

\* Start, line 137: the deferred exitWG.Done once Run has returned
RunDone ==
  /\ pc["run"] = "returned"
  /\ exitWG' = exitWG - 1
  /\ pc' = [pc EXCEPT !["run"] = "exited"]
  /\ UNCHANGED << shared, mu, exit, started, computeStatsBySpanKind, left, fl,
                  applied, nflush, history, lateApply, wr >>
  /\ UNCHANGED aside


\* --------------------------------------------------------------------- Add
LockTakenAnyway(m) == TRUE

\* sync.Mutex.Lock returns when nobody holds the mutex
LockFree(m) == m = "none"

UnlockForgotten(m) == m

\* sync.Mutex.Unlock
Unlock(m) == "none"

\* Add, line 206
AddLock(t) ==
  /\ pc[t] = "idle"
  /\ LockFree(mu)
  /\ applied < MaxSpans
  /\ mu' = t
  /\ \E n \in 0..MaxSpans : left' = [left EXCEPT ![t] = n]
  /\ pc' = [pc EXCEPT ![t] = "adding"]
  /\ swept' = NoPrior
  /\ batch' = {}
  /\ UNCHANGED << shared, life, computeStatsBySpanKind, fl, applied, nflush,
                  exports, lateApply, wr >>
  /\ UNCHANGED << setup, delivered, clock >>

Put(bk, ts, b) == [u \in (DOMAIN bk) \cup {ts} |-> IF u = ts THEN b ELSE bk[u]]

\* addNow, lines 233-259: one iteration of the loop over the spans
AddSpan(t) ==
  /\ pc[t] = "adding"
  /\ left[t] > 0
  /\ \E s \in inputs :
       IF Eligible(s, computeStatsBySpanKind)
       THEN /\ applied < MaxSpans
            /\ LET id    == applied + 1
                   btime == BucketTime(s, oldestTs)
                   b     == IF btime \in DOMAIN buckets
                            THEN buckets[btime] ELSE NewRawBucket(btime, id)
               IN  /\ buckets' = Put(buckets, btime, HandleSpan(b, id, AggKey(s)))
                   /\ lateApply' = (lateApply \/ b.inst \in {p.inst : p \in xlog})
                   /\ applied' = id
                   /\ batch' = batch \cup {<<btime, id>>}
                   /\ lastAdd' = [id |-> id, end |-> s.Start + s.Duration,
                                  eligible |-> TRUE]
       ELSE UNCHANGED << buckets, lateApply, applied, lastAdd, batch >>
  /\ left' = [left EXCEPT ![t] = @ - 1]
  /\ UNCHANGED << oldestTs, mu, life, computeStatsBySpanKind, pc, fl, nflush,
                  swept, xlog, dupExport, wr >>
  /\ UNCHANGED << setup, delivered, clock >>

\* Add, line 207: the deferred Unlock
AddUnlock(t) ==
  /\ pc[t] = "adding"
  /\ left[t] = 0
  /\ mu' = Unlock(mu)
  /\ pc' = [pc EXCEPT ![t] = "idle"]
  /\ lastAdd' = NoAdd
  /\ UNCHANGED << shared, life, computeStatsBySpanKind, left, fl, applied, nflush,
                  swept, xlog, dupExport, lateApply, wr >>
  /\ UNCHANGED aside

\* ------------------------------------------------------------------- Flush
\* Flush, line 264, called from outside the Run loop
FlushCall(t) ==
  /\ pc[t] = "idle"
  /\ nflush < MaxFlushes
  /\ nflush' = nflush + 1
  /\ \E force \in BOOLEAN : fl' = [fl EXCEPT ![t] = [FlIdle EXCEPT !.force = force]]
  /\ pc' = [pc EXCEPT ![t] = "flock"]
  /\ UNCHANGED << shared, mu, life, computeStatsBySpanKind, left, applied,
                  history, lateApply, wr >>
  /\ UNCHANGED aside

\* Flush, line 265: what time.Now() returns
Readings(c) == IF c = Untimed THEN Nows ELSE {c}

\* Flush, line 265 and flushNow, line 272. The wall clock Flush reads is any
\* value whatever the order in which the lock is taken, so the reading is
\* drawn here, when the call gets the lock.
FlushLock(t) ==
  /\ pc[t] = "flock"
  /\ LockFree(mu)
  /\ mu' = t
  /\ \E now \in Readings(clock) : fl' = [fl EXCEPT ![t].now = now]
  /\ pc' = [pc EXCEPT ![t] = "sweep"]
  /\ UNCHANGED << shared, life, computeStatsBySpanKind, left, applied, nflush,
                  history, lateApply, wr >>
  /\ UNCHANGED aside

\* flushNow, lines 273-300: the sweep and the watermark update
FlushSweep(t) ==
  /\ pc[t] = "sweep"
  /\ LET now   == fl[t].now
         force == fl[t].force
         S     == Flushed(buckets, now, force)
         out   == {[ts |-> ts, inst |-> buckets[ts].inst, forced |-> force] : ts \in S}
     IN  /\ fl' = [fl EXCEPT ![t].pre = buckets,
                             ![t].old = oldestTs,
                             ![t].prior = swept,
                             ![t].m = Merged(buckets, S)]
         /\ buckets' = Remaining(buckets, S)
         /\ oldestTs' = NewOldestTs(oldestTs, now)
         /\ xlog' = xlog \cup out
         /\ dupExport' = (dupExport \/ \E o \in out : \E p \in xlog : p.inst = o.inst)
         /\ swept' = [some |-> TRUE, now |-> alignTs(now, bsize), force |-> force]
         /\ wr' = [wr EXCEPT !.forcedFlush = IF t = "run" /\ force THEN @ + 1 ELSE @]
  /\ pc' = [pc EXCEPT ![t] = "unlock"]
  /\ UNCHANGED << mu, life, computeStatsBySpanKind, left, applied, nflush,
                  lateApply, lastAdd >>
  /\ UNCHANGED aside

\* flushNow, line 301
FlushUnlock(t) ==
  /\ pc[t] = "unlock"
  /\ mu' = Unlock(mu)
  /\ pc' = [pc EXCEPT ![t] = "assemble"]
  /\ fl' = [fl EXCEPT ![t] = [FlIdle EXCEPT !.force = fl[t].force, !.m = fl[t].m,
                                           !.pre = IF fl[t].force THEN fl[t].pre ELSE EmptyMap]]
  /\ UNCHANGED << shared, life, computeStatsBySpanKind, left, applied, nflush,
                  history, lateApply, wr >>
  /\ UNCHANGED aside

\* flushNow, lines 302-317
FlushAssemble(t) ==
  /\ pc[t] = "assemble"
  /\ fl' = [fl EXCEPT ![t].sb = Assemble(fl[t].m), ![t].m = EmptyMap]
  /\ pc' = [pc EXCEPT ![t] = "payload"]
  /\ UNCHANGED << shared, mu, life, computeStatsBySpanKind, left, applied, nflush,
                  history, lateApply, wr >>
  /\ UNCHANGED aside

\* Flush returns its payload to a caller other than Run
FlushReturn(t) ==
  /\ pc[t] = "payload"
  /\ delivered' = Deliver(delivered, fl[t].sb)
  /\ fl' = [fl EXCEPT ![t] = FlIdle]
  /\ pc' = [pc EXCEPT ![t] = "idle"]
  /\ UNCHANGED << shared, mu, life, computeStatsBySpanKind, left, applied, nflush,
                  history, lateApply, wr >>
  /\ UNCHANGED << setup, batch, clock >>

\* ----------------------------------------------------------- specification
AddNext ==
  \/ \E t \in Adders : AddLock(t)
  \/ \E t \in Adders : AddSpan(t)
  \/ \E t \in Adders : AddUnlock(t)

\* Add calls and Flush calls from threads other than Run
StoreNext ==
  \/ AddNext
  \/ \E t \in Flushers : FlushCall(t)
  \/ \E t \in Flushers : FlushLock(t)
  \/ \E t \in Flushers : FlushSweep(t)
  \/ \E t \in Flushers : FlushUnlock(t)
  \/ \E t \in Flushers : FlushAssemble(t)
  \/ \E t \in Flushers : FlushReturn(t)

\* Start, the Run goroutine, Stop, and Add calls
LifeNext ==
  \/ AddNext
  \/ Start
  \/ StopClose
  \/ StopWait
  \/ RunBegin
  \/ RunTick
  \/ RunExit
  \/ FlushLock("run")
  \/ FlushSweep("run")
  \/ FlushUnlock("run")
  \/ FlushAssemble("run")
  \/ WriteCall
  \/ WriteReturn
  \/ RunDone

Next == StoreNext \/ LifeNext

StoreSpec == Init /\ [][StoreNext]_vars

LifeSpec == Init /\ [][LifeNext]_vars

Spec == Init /\ [][Next]_vars

\* Add calls that send one given span, to a concentrator with
\* conf.ComputeStatsBySpanKind set or not
EligInit ==
  /\ \E now \in InitNows : \E bySpanKind \in BOOLEAN : NewConcentrator(now, bySpanKind)
  /\ NothingYet("created")
  /\ \E s \in KindInputs : inputs = {s}
  /\ clock = Untimed
  /\ NoPeerTags

EligSpec == EligInit /\ [][AddNext]_vars

\* A concentrator that is started when it is constructed and not stopped,
\* whose ticks come one period after the other, the first one period after
\* the construction, each flushed at the time of the tick.
TickInit ==
  /\ \E now \in InitNows : NewConcentrator(now, TRUE) /\ clock = now
  /\ NothingYet("created")
  /\ inputs = TimedInputs
  /\ NoPeerTags

TickNext ==
  \/ AddNext
  \/ Start
  \/ RunBegin
  \/ RunTick
  \/ FlushLock("run")
  \/ FlushSweep("run")
  \/ FlushUnlock("run")
  \/ FlushAssemble("run")
  \/ WriteCall
  \/ WriteReturn

\* the steps of Start's caller and of the Run goroutine other than taking the
\* mutex; no two of them are enabled together
RunSteps ==
  \/ Start
  \/ RunBegin
  \/ RunTick
  \/ FlushSweep("run")
  \/ FlushUnlock("run")
  \/ FlushAssemble("run")
  \/ WriteCall
  \/ WriteReturn

\* Start is called and the goroutine runs, the ticker ticks and Writer.Write
\* returns; a Lock that waits gets the mutex when it is released again and
\* again (sync.Mutex hands it to a starving waiter); an Add call ends (its
\* loop is finite).
TickFairness ==
  /\ WF_vars(RunSteps)
  /\ SF_vars(FlushLock("run"))
  /\ WF_vars(\E t \in Adders : AddSpan(t) \/ AddUnlock(t))

TickSpec == TickInit /\ [][TickNext]_vars /\ TickFairness

\* NewConcentrator, line 127, with peer tag aggregation set
PreparePeerTags ==
  /\ pc["ctl"] = "new"
  /\ peerTagKeys' = preparePeerTags(peerTagsArg)
  /\ pc' = [pc EXCEPT !["ctl"] = "created"]
  /\ UNCHANGED << shared, mu, life, computeStatsBySpanKind, left, fl, applied,
                  nflush, history, lateApply, wr, inputs, peerTagsArg, batch,
                  delivered, clock >>

\* NewConcentrator is at line 126, with peer tag aggregation set and any
\* tags in defaultPeerTags and conf.PeerTags
TagInit ==
  /\ NewConcentrator(0, TRUE)
  /\ NothingYet("new")
  /\ inputs = SpanInputs
  /\ clock = Untimed
  /\ peerTagsArg \in TagSeqs
  /\ peerTagKeys = << >>

TagSpec == TagInit /\ [][PreparePeerTags]_vars

TypeOK ==
  /\ oldestTs \in Int
  /\ mu \in Threads \cup {"none"}
  /\ exitWG \in 0..1
  /\ applied \in 0..MaxSpans
  /\ nflush \in 0..MaxFlushes


\* ------------------------------------------------------------------ helpers
\* mathematical floor of e to a multiple of w (\div rounds down)
Floor(e, w) == w * (e \div w)

\* the (bucket timestamp, span) pairs a bucket map holds
StoreSpans(bk) == UNION {{<<ts, d.id>> : d \in bk[ts].data} : ts \in DOMAIN bk}

\* the bucket timestamps exported into m
ExportedTs(m) == {r.start : r \in RecordsOf(m)}

IdsAt(bk, ts) == {d.id : d \in bk[ts].data}

RunOver == pc["run"] \in {"returned", "exited"}

\* ------------------------------------------------------------------- claims

\* C1. Shutdown safety: when Stop was called after Start and has returned,
\* the Run goroutine has made its forced flush, the Writer.Write call with
\* that flush's payload has returned, and the goroutine has left Run and
\* signalled the wait group.
C1_ShutdownSafety ==
  (started /\ pc["ctl"] = "stopped") =>
     /\ wr.forcedFlush = 1
     /\ wr.forcedCalls = 1
     /\ wr.forcedRets = 1
     /\ pc["run"] = "exited"

\* Stop has returned after a Start, and the run exported buckets on the way
C1_Witness ==
  /\ started
  /\ pc["ctl"] = "stopped"
  /\ wr.calls >= 2
  /\ xlog # {}

\* The state part of C2: the Run goroutine makes at most one forced flush,
\* never before the exit channel is closed, and one Write of it; the payload
\* it hands to Write holds every span of every bucket that was in the map
\* when the forced flush held the lock; Run is over exactly when that Write
\* has returned.
C2_Inv ==
  /\ wr.forcedFlush <= 1
  /\ wr.forcedCalls <= wr.forcedFlush
  /\ wr.forcedRets <= wr.forcedCalls
  /\ wr.forcedFlush = 1 => exit
  /\ (pc["run"] \in {"payload", "writing"} /\ fl["run"].force) =>
        PayloadSpans(fl["run"].sb) = StoreSpans(fl["run"].pre)
  /\ wr.forcedRets = 1 <=> RunOver
  /\ RunOver => wr.forcedFlush = 1 /\ wr.forcedCalls = 1

\* The step part of C2: once Run is over it neither flushes nor writes.
C2_Final == RunOver => (RunOver' /\ wr' = wr /\ fl'["run"] = fl["run"] /\ xlog' = xlog)

\* C2. Exactly one forced flush and one Write of it after the exit channel
\* is closed, carrying every bucket of the map; then Run is over for good.
C2_OneForcedFlush == [](C2_Inv) /\ [][C2_Final]_vars

\* Run is writing its forced payload, which carries buckets of two timestamps,
\* one of them newer than the flush's clock reading would let a tick export
C2_Witness ==
  /\ pc["run"] = "writing"
  /\ fl["run"].force
  /\ Cardinality(DOMAIN fl["run"].pre) = 2
  /\ wr.calls = 2

\* C3. Retention: a non-forced flush at time now keeps a bucket (it stays in
\* the map and is not in the payload) iff its timestamp is greater than
\* now - bufferLen*bsize, and exports and removes it iff its timestamp is
\* at most now - bufferLen*bsize.
C3_Retention ==
  \A t \in FlushThreads :
    (pc[t] = "unlock" /\ ~fl[t].force) =>
       \A ts \in DOMAIN fl[t].pre :
          LET kept == ts \in DOMAIN buckets /\ ts \notin ExportedTs(fl[t].m)
              gone == ts \notin DOMAIN buckets /\ ts \in ExportedTs(fl[t].m)
          IN  /\ kept <=> ts > fl[t].now - bufferLen * bsize
              /\ gone <=> ts <= fl[t].now - bufferLen * bsize
              /\ kept => buckets[ts] = fl[t].pre[ts]

\* a non-forced flush that exported one bucket and kept another
C3_Witness ==
  \E t \in FlushThreads :
    /\ pc[t] = "unlock"
    /\ ~fl[t].force
    /\ ExportedTs(fl[t].m) # {}
    /\ DOMAIN buckets # {}

\* C4. Forced drain: a forced flush exports every bucket of the map, whatever
\* its timestamp, and the map is empty when the flush releases the lock.
C4_ForcedDrain ==
  \A t \in FlushThreads :
    (pc[t] = "unlock" /\ fl[t].force) =>
       /\ buckets = EmptyMap
       /\ ExportedTs(fl[t].m) = DOMAIN fl[t].pre
       /\ StoreSpans(fl[t].pre) =
            UNION {{<<r.start, i>> : i \in r.ids} : r \in RecordsOf(fl[t].m)}

\* a forced flush that drained a bucket in the future of its clock reading
\* and one a non-forced flush would have exported
C4_Witness ==
  \E t \in FlushThreads :
    /\ pc[t] = "unlock"
    /\ fl[t].force
    /\ \E ts \in DOMAIN fl[t].pre : ts > fl[t].now
    /\ \E ts \in DOMAIN fl[t].pre : ts <= fl[t].now - bufferLen * bsize

\* The step of C5: oldestTs does not decrease, and changes only in a sweep.
C5_Step ==
  /\ oldestTs' >= oldestTs
  /\ oldestTs' # oldestTs =>
       \E t \in FlushThreads : pc[t] = "sweep" /\ pc'[t] = "unlock"

\* C5. Watermark monotonicity: no step decreases oldestTs, whatever the
\* order of the clock readings, and only a flush's sweep changes it (no
\* step of Add does).
C5_WatermarkMonotone == [][C5_Step]_vars

\* a flush whose clock reading is behind the watermark left it unchanged,
\* after an earlier flush had raised it
C5_Witness ==
  \E t \in FlushThreads :
    /\ pc[t] = "unlock"
    /\ fl[t].prior.some
    /\ alignTs(fl[t].now, bsize) < fl[t].prior.now
    /\ alignTs(fl[t].now, bsize) - (bufferLen - 1) * bsize < fl[t].old
    /\ oldestTs = fl[t].old

\* C6. Alignment and lateness clamp: an eligible span with end time e is put
\* by Add into the bucket of timestamp floor(e, bsize) when that is at least
\* oldestTs, and into the bucket of timestamp oldestTs otherwise; it is in
\* that bucket and in no other, so a late span is not dropped.
C6_AlignClamp ==
  \A t \in Adders :
    (pc[t] = "adding" /\ lastAdd.eligible) =>
       LET f    == Floor(lastAdd.end, bsize)
           want == IF f >= oldestTs THEN f ELSE oldestTs
       IN  /\ want \in DOMAIN buckets
           /\ \A ts \in DOMAIN buckets : lastAdd.id \in IdsAt(buckets, ts) <=> ts = want

\* a late span was clamped into the oldest bucket after a flush had raised
\* the watermark
C6_Witness ==
  \E t \in Adders :
    /\ pc[t] = "adding"
    /\ lastAdd.eligible
    /\ Floor(lastAdd.end, bsize) < oldestTs
    /\ lastAdd.end >= 0
    /\ oldestTs > bsize
    /\ lastAdd.id \in IdsAt(buckets, oldestTs)

\* C7. Every key of the bucket map is a multiple of the bucket size, and so
\* is oldestTs, after construction and after every flush.
C7_Aligned ==
  /\ \A ts \in DOMAIN buckets : ts % bsize = 0
  /\ oldestTs % bsize = 0

\* a late span made a bucket at oldestTs after a flush had raised the
\* watermark
C7_Witness ==
  \E t \in Adders :
    /\ pc[t] = "adding"
    /\ lastAdd.eligible
    /\ Floor(lastAdd.end, bsize) < oldestTs
    /\ oldestTs > bsize
    /\ oldestTs \in DOMAIN buckets
    /\ buckets[oldestTs].inst = lastAdd.id


C9_InstanceExportedOnce ==
  /\ ~dupExport
  /\ ~lateApply
  /\ \A ts \in DOMAIN buckets : \A p \in xlog : buckets[ts].inst # p.inst

\* while a flush that exported a bucket assembles its payload, an Add call
\* puts a span in a new bucket at the exported timestamp
C9_Witness ==
  \E t \in FlushThreads : \E a \in Adders : \E p \in xlog :
    /\ pc[t] = "assemble"
    /\ p.ts \in ExportedTs(fl[t].m)
    /\ pc[a] = "adding"
    /\ p.ts \in DOMAIN buckets
    /\ buckets[p.ts].inst = lastAdd.id

\* C10 as stated. Of two consecutive flushes with no Add between them, the
\* second one's payload has no groups.
C10_SecondFlushEmpty ==
  \A t \in FlushThreads :
    (pc[t] = "unlock" /\ fl[t].prior.some) => Assemble(fl[t].m) = {}

\* C10 as amended. Of two consecutive flushes with no Add between them, the
\* second one's payload has no groups when the first was forced, or when the
\* second is not forced and its clock reading is in the bucket of the
\* first's or in an earlier one.
C10_SecondFlushEmptySameWindow ==
  \A t \in FlushThreads :
    ( /\ pc[t] = "unlock"
      /\ fl[t].prior.some
      /\ \/ fl[t].prior.force
         \/ /\ ~fl[t].force
            /\ alignTs(fl[t].now, bsize) <= fl[t].prior.now )
    => Assemble(fl[t].m) = {}

\* the second of two non-forced flushes in the same bucket of time has swept;
\* the first exported a bucket and kept another
C10_Witness ==
  \E t \in FlushThreads :
    /\ pc[t] = "unlock"
    /\ fl[t].prior.some
    /\ ~fl[t].prior.force
    /\ ~fl[t].force
    /\ alignTs(fl[t].now, bsize) = fl[t].prior.now
    /\ xlog # {}
    /\ buckets # EmptyMap

\* the (bucket timestamp, span) pairs in the payload a flush has made or is
\* making
InFlight(t) ==
  PayloadSpans(fl[t].sb)
    \cup UNION {{<<r.start, i>> : i \in r.ids} : r \in RecordsOf(fl[t].m)}

\* C11. Batch atomicity: of the eligible spans one Add call puts at one
\* bucket timestamp, the payload of a flush carries all or none, whatever
\* the interleaving of the Add call and the flush.
C11_BatchAtomic ==
  \A t \in FlushThreads : \A ts \in {p[1] : p \in batch} :
    LET mine == {p \in batch : p[1] = ts}
    IN  mine \subseteq InFlight(t) \/ mine \cap InFlight(t) = {}

\* a flush assembles a payload that carries both spans an Add call put at
\* one timestamp
C11_Witness ==
  \E t \in FlushThreads : \E p \in batch : \E q \in batch :
    /\ pc[t] = "assemble"
    /\ p[1] = q[1]
    /\ p[2] # q[2]
    /\ {p, q} \subseteq InFlight(t)

\* the kind values that count, in whatever case
CountedKinds ==
  {"server", "SERVER", "consumer", "Consumer", "client", "Client", "producer",
   "PRODUCER"}

\* the condition C12 gives for a span to be applied
C12_Applies(s) ==
  /\ s.TopLevel \/ s.Measured \/ (computeStatsBySpanKind /\ s.Kind \in CountedKinds)
  /\ ~s.Partial

\* computeStatsForSpanKind is true for exactly the four kinds
C12_Kind == \A s \in inputs : computeStatsForSpanKind(s) <=> s.Kind \in CountedKinds

\* an iteration of addNow's loop applies the span it is handed (the span gets
\* the next id and is counted in a bucket) iff the condition holds, and
\* leaves the map alone otherwise
C12_Step ==
  \A t \in Adders : \A s \in inputs :
    (pc[t] = "adding" /\ left'[t] = left[t] - 1) =>
       IF C12_Applies(s)
       THEN /\ applied' = applied + 1
            /\ \E ts \in DOMAIN buckets' : applied' \in IdsAt(buckets', ts)
       ELSE applied' = applied /\ buckets' = buckets

\* C12. Eligibility: Add applies a span to a bucket iff it is top-level or
\* measured or (span-kind eligibility is enabled and its span.kind is, in any
\* case, one of server, consumer, client, producer) and it is not a partial
\* snapshot; computeStatsForSpanKind is false for every other kind, the
\* empty one included.
C12_Eligibility == [](C12_Kind) /\ [][C12_Step]_vars

\* a span that is neither top-level nor measured, of kind SERVER, was applied
C12_Witness ==
  /\ computeStatsBySpanKind
  /\ \E s \in inputs :
       ~s.TopLevel /\ ~s.Measured /\ ~s.Partial /\ s.Kind = "SERVER"
  /\ Cardinality(inputs) = 1
  /\ applied >= 1

\* the aggregation key a group of a payload stands for
GroupKey(g) ==
  [Env |-> g.Env, Hostname |-> g.Hostname, Version |-> g.Version,
   ContainerID |-> g.ContainerID, GitCommitSha |-> g.GitCommitSha,
   ImageTag |-> g.ImageTag]

\* the hostname a span is accounted to
C13_Host(s) == IF s.TracerHostname = "" THEN agentHostname ELSE s.TracerHostname

\* a span's aggregation key has the span's hostname, so spans that differ in
\* hostname have different keys
C13_Keys == \A s \in inputs : AggKey(s).Hostname = C13_Host(s)

\* after the sweep m has exactly the keys of the exported buckets, and under
\* each key exactly one record for each exported bucket that held the key
C13_Merged ==
  \A t \in FlushThreads :
    pc[t] = "unlock" =>
      LET pre == fl[t].pre
          m   == fl[t].m
          ex  == (DOMAIN pre) \ (DOMAIN buckets)
      IN  /\ DOMAIN m = UNION {KeysOf(pre[ts]) : ts \in ex}
          /\ \A k \in DOMAIN m :
               /\ \A r \in m[k] : r.start \in ex
               /\ \A ts \in ex :
                    Cardinality({r \in m[k] : r.start = ts})
                      = IF k \in KeysOf(pre[ts]) THEN 1 ELSE 0

\* the payload has exactly one group for each key of m, with the key's records
C13_Assemble ==
  \A t \in FlushThreads :
    (pc[t] = "assemble" /\ pc'[t] = "payload") =>
      LET m  == fl[t].m
          sb == fl'[t].sb
      IN  /\ \A g \in sb : GroupKey(g) \in DOMAIN m
          /\ \A k \in DOMAIN m :
               /\ Cardinality({g \in sb : GroupKey(g) = k}) = 1
               /\ \A g \in sb : GroupKey(g) = k => g.Stats = m[k]

\* C13. Grouping by aggregation key: a payload has exactly one group for each
\* distinct aggregation key of the exported buckets (spans of one bucket
\* that differ only in hostname give two groups), and a group's stats hold
\* exactly one record for each exported bucket that held the key.
C13_Grouping == [](C13_Keys /\ C13_Merged) /\ [][C13_Assemble]_vars

\* a payload with two groups that differ only in hostname, each with a
\* record of the same bucket
C13_Witness ==
  \E t \in FlushThreads : \E g \in fl[t].sb : \E h \in fl[t].sb :
    /\ pc[t] = "payload"
    /\ g.Hostname # h.Hostname
    /\ [g EXCEPT !.Hostname = h.Hostname, !.Stats = h.Stats] = h
    /\ \E r \in g.Stats : \E q \in h.Stats : r.start = q.start /\ r.inst = q.inst

\* the tags of a sequence
C14_Range(q) == {q[i] : i \in 1..Len(q)}

\* a is before b in lexicographic order: at the first place where they
\* differ a has ended or has the smaller byte
C14_Before(a, b) ==
  \E k \in 1..(Len(a) + 1) :
    /\ \A j \in 1..(k - 1) : j <= Len(b) /\ a[j] = b[j]
    /\ \/ k = Len(a) + 1 /\ Len(b) >= k
       \/ k <= Len(a) /\ k <= Len(b) /\ a[k] < b[k]

\* the sequences that are the input in another order
C14_Permuted(q) == {[i \in 1..Len(q) |-> q[f[i]]] : f \in Permutations(1..Len(q))}

\* C14. Peer-tag merge determinism: what preparePeerTags returns holds each
\* distinct tag of its input exactly once, in ascending lexicographic order,
\* is the same for every permutation of the input, and is empty for an
\* empty input.
C14_PeerTags ==
  pc["ctl"] # "new" =>
    /\ C14_Range(peerTagKeys) = C14_Range(peerTagsArg)
    /\ Len(peerTagKeys) = Cardinality(C14_Range(peerTagsArg))
    /\ \A i \in 1..Len(peerTagKeys) : \A j \in 1..Len(peerTagKeys) :
         i < j => C14_Before(peerTagKeys[i], peerTagKeys[j])
    /\ \A q \in C14_Permuted(peerTagsArg) : preparePeerTags(q) = peerTagKeys
    /\ peerTagsArg = << >> => peerTagKeys = << >>

\* three tags, one of them given twice and out of order, were merged into two
C14_Witness ==
  /\ pc["ctl"] = "created"
  /\ Len(peerTagsArg) = 3
  /\ Len(peerTagKeys) = 2
  /\ peerTagsArg[1] = peerTagsArg[3]
  /\ C14_Before(peerTagsArg[2], peerTagsArg[1])

\* the candidate watermark of a flush at time now
C15_Candidate(now) == Floor(now, bsize) - (bufferLen - 1) * bsize

\* C15. Watermark update: when a flush, forced or not, called with time now
\* has swept, oldestTs is the greater of its value before the flush and
\* align(now, bsize) - (bufferLen-1)*bsize; it has changed only if the
\* candidate is strictly greater than the value before.
C15_WatermarkUpdate ==
  \A t \in FlushThreads :
    pc[t] = "unlock" =>
      LET cand == C15_Candidate(fl[t].now)
      IN  /\ oldestTs = IF cand > fl[t].old THEN cand ELSE fl[t].old
          /\ oldestTs # fl[t].old => cand > fl[t].old

\* a forced flush has raised the watermark by more than one bucket
C15_Witness ==
  \E t \in FlushThreads :
    /\ pc[t] = "unlock"
    /\ fl[t].force
    /\ oldestTs >= fl[t].old + 2 * bsize
    /\ oldestTs = C15_Candidate(fl[t].now)

\* C16. The lock is not held while Writer.Write runs nor while a payload is
\* assembled: a thread that is assembling its payload, has it ready, or is
\* inside Write does not hold c.mu, and the lock is then free unless an Add
\* call has it, so that an Add call can take it.
C16_LockReleased ==
  \A t \in FlushThreads :
    pc[t] \in {"assemble", "payload", "writing"} =>
      /\ mu # t
      /\ (\A a \in Adders : pc[a] = "idle") => LockFree(mu)

\* an Add call took the lock and applied a span while Run was inside Write
C16_Witness ==
  \E a \in Adders :
    /\ pc["run"] = "writing"
    /\ mu = a
    /\ pc[a] = "adding"
    /\ batch # {}
    /\ fl["run"].sb # {}

\* C17. Whenever the lock is free, after any Add and flush calls (forced or
\* not, with any clock readings), every key of the bucket map is at least
\* oldestTs: the bucket at oldestTs, where late spans go, is the oldest of
\* the map.
C17_NoBucketBelowWatermark ==
  LockFree(mu) => \A ts \in DOMAIN buckets : ts >= oldestTs

\* the lock is free, a flush has raised the watermark above every value it
\* has at construction, and the map has a bucket at the watermark and a
\* newer one
C17_Witness ==
  /\ LockFree(mu)
  /\ \A now \in InitNows : oldestTs > alignTs(now, bsize)
  /\ oldestTs \in DOMAIN buckets
  /\ \E ts \in DOMAIN buckets : ts > oldestTs

\* the number of buckets of the map that count span i
C18_InStore(i) == Cardinality({ts \in DOMAIN buckets : i \in IdsAt(buckets, ts)})

\* the number of records that count span i in the payloads flushes are making
\* or have made and not yet handed over
C18_InMaking(i) ==
  Cardinality({x \in UNION {{<<t, r>> : r \in RecordsOf(fl[t].m)} : t \in FlushThreads} :
                 i \in x[2].ids})
    + Cardinality({x \in UNION {{<<t, gr>> : gr \in GroupRecords(fl[t].sb)} :
                                   t \in FlushThreads} :
                     i \in x[2][2].ids})

\* C18. Conservation of spans: under any interleaving of Add and Flush calls
\* a span that Add has applied is counted exactly once: in one bucket of the
\* map, or in one record of the payload of one flush (the payload the flush
\* is making, or one it has handed over); never nowhere, never twice. A span
\* not applied yet is counted nowhere.
C18_Conservation ==
  \A i \in 1..MaxSpans :
    C18_InStore(i) + C18_InMaking(i) + delivered[i] = IF i <= applied THEN 1 ELSE 0

\* one span has been handed over in a payload and a later flush is
\* assembling the payload that counts another
C18_Witness ==
  \E t \in FlushThreads : \E i \in 1..MaxSpans : \E j \in 1..MaxSpans :
    /\ delivered[i] = 1
    /\ pc[t] = "assemble"
    /\ C18_InMaking(j) = 1
    /\ applied = MaxSpans

\* C19. Bounded past window: when a non-forced flush at time now has swept,
\* the buckets left in the map whose timestamp is at most now are at most
\* bufferLen, each at align(now, bsize) - k*bsize for some k in
\* 0..bufferLen-1; buckets of later timestamps are not bounded.
C19_PastWindow ==
  \A t \in FlushThreads :
    (pc[t] = "unlock" /\ ~fl[t].force) =>
      LET past == {ts \in DOMAIN buckets : ts <= fl[t].now}
      IN  /\ Cardinality(past) <= bufferLen
          /\ \A ts \in past :
               \E k \in 0..(bufferLen - 1) : ts = Floor(fl[t].now, bsize) - k * bsize

\* a non-forced flush has swept and left bufferLen buckets not later than
\* its clock reading: the current one and the one before
C19_Witness ==
  \E t \in FlushThreads :
    /\ pc[t] = "unlock"
    /\ ~fl[t].force
    /\ Cardinality({ts \in DOMAIN buckets : ts <= fl[t].now}) = bufferLen
    /\ fl[t].now > bufferLen * bsize

\* the time of the last tick the model follows
C20_LastTick == clock + (MaxFlushes - nflush) * TickPeriod

\* when the flush of a tick at time now has swept, it has exported every
\* bucket with ts + bufferLen*bsize <= now and no other, and each exported
\* bucket's window [ts, ts + bsize) ended at most bufferLen*bsize before now
C20_AtTick ==
  (pc["run"] = "unlock" /\ ~fl["run"].force) =>
    LET now == fl["run"].now
    IN  /\ \A ts \in DOMAIN fl["run"].pre :
             ts \in ExportedTs(fl["run"].m) <=> now >= ts + bufferLen * bsize
        /\ \A ts \in DOMAIN buckets : now < ts + bufferLen * bsize
        /\ \A ts \in ExportedTs(fl["run"].m) : now - (ts + bsize) <= bufferLen * bsize

\* the span is in a bucket that a tick the model follows is due to export
C20_Due(i) ==
  \E ts \in DOMAIN buckets :
    i \in IdsAt(buckets, ts) /\ ts + bufferLen * bsize <= C20_LastTick

\* C20. Bounded flush delay: while Run flushes on every tick, one tick every
\* bsize, a bucket at ts is exported at the first tick whose time now
\* satisfies now >= ts + bufferLen*bsize, at most bufferLen*bsize after its
\* window has ended, and the payload with it is written: no bucket whose
\* tick comes stays in the map.
C20_BoundedDelay ==
  /\ [](C20_AtTick)
  /\ \A i \in 1..MaxSpans : C20_Due(i) ~> (delivered[i] = 1)

\* Run is inside the Write of the second tick, whose payload carries a
\* bucket; the first tick wrote no span
C20_Witness ==
  /\ clock # Untimed
  /\ pc["run"] = "writing"
  /\ nflush = 2
  /\ fl["run"].sb # {}
  /\ \A i \in 1..MaxSpans : delivered[i] = 0

====
